---- MODULE Spec2Model ----
(***************************************************************************)
(* EqualValueEmbeddedConstraint (MOOSE): a node-to-element constraint that *)
(* ties the value of a variable at the nodes of a slave subdomain to the   *)
(* value interpolated on the master element that geometrically contains    *)
(* the node.  Real numbers are modelled by integers (the code only adds,   *)
(* subtracts and multiplies), vectors by functions on 0..n-1.              *)
(***************************************************************************)
EXTENDS Integers, Sequences, FiniteSets, TLC

VARIABLES
  node_pos,              \* mesh geometry: coordinate of every node (1D)
  _slave_to_master_map,  \* std::map<dof_id_type, dof_id_type>, as a set of <<sid, mid>>
  ghosted_elems,         \* elements handed to _subproblem.addGhostedElem
  _formulation,          \* Formulation enum value
  _penalty,              \* penalty parameter
  _current_node,         \* node under assembly (NULL before the first one)
  _u_slave,              \* value of the variable at the slave node, [qp]
  _u_master,             \* value of the variable on the master element, [qp]
  _phi_master,           \* master trial shape values, [j] at the single qp
  _test_master,          \* master test shape values, [i] at the single qp
  _test_slave,           \* slave test values, [i] at the single qp
  neighbor_subdomain,    \* subdomain set by setNeighborSubdomainID
  neighbor_elem,         \* element last reinitialised by reinitNeighborPhys
  solution,              \* nodal values of the variable
  residual_ghosted,      \* _sys.residualGhosted(), indexed by dof
  _constraint_residual,  \* the constraint residual scalar
  _connected_dof_indices,\* dofs connected to the slave node, [j]
  _phi_slave,            \* synthetic slave basis vector, [j] at the single qp
  jacobian,              \* (*_jacobian)(row, col): entries of the system matrix
  _Kee, _Kne,            \* slave-slave and master-slave blocks owned by the constraint
  Ken, Knn,              \* neighbor blocks of the assembly, a record [m, n, e]
  applied,               \* what the last shouldApply returned
  result,                \* what the last computeQp... call returned
  aborted,               \* mooseError was raised: the run is over
  last_call              \* the operation that ran last

vars == <<node_pos, _slave_to_master_map, ghosted_elems, _formulation, _penalty,
          _current_node, _u_slave, _u_master, _phi_master, _test_master,
          _test_slave, neighbor_subdomain, neighbor_elem, solution,
          residual_ghosted, _constraint_residual, _connected_dof_indices,
          _phi_slave, jacobian, _Kee, _Kne, Ken, Knn, applied, result, aborted,
          last_call>>

meshVars == <<node_pos>>
mapVars == <<_slave_to_master_map, ghosted_elems>>
configVars == <<_formulation, _penalty, _test_slave>>
nodeVars == <<_current_node, _u_slave>>
neighborVars == <<_u_master, _phi_master, _test_master, neighbor_subdomain, neighbor_elem>>
fieldVars == <<solution, residual_ghosted>>
dofVars == <<_connected_dof_indices, _phi_slave>>
blockVars == <<_Kee, _Kne, Ken, Knn>>

-----------------------------------------------------------------------------
(* Bounds of the model *)

\* slave nodes sit at the coordinates 0..MaxPos; the master block covers 0..2
MaxPos == 3
\* entries of the ghosted residual vector are -MaxResidual, 0 or MaxResidual
MaxResidual == 1
\* an assembly block is accumulated into only while its entries are within
\* -MaxEntry..MaxEntry
MaxEntry == 3

-----------------------------------------------------------------------------
(* Values of the program *)

NULL == -1

\* enum class Formulation { KINEMATIC, PENALTY }; INVALID is a value outside it
KINEMATIC == 0
PENALTY == 1
INVALID == 2
Formulations == {KINEMATIC, PENALTY}

\* the "slave" and "master" subdomain parameters of the constraint
_slave == 1
_master == 2

\* number of the constrained variable (_var.number()) and the variables of the system
VarNumber == 0
NumVars == 2
Vars == 0..(NumVars - 1)

-----------------------------------------------------------------------------
(* The mesh: a master block of two unit elements on the nodes 0, 1, 2, and a *)
(* slave block on the nodes 3..6 whose element 4 is not active.              *)

NumElems == 5
Elems == 0..(NumElems - 1)
MasterNodes == {0, 1, 2}
SlaveNodes == {3, 4, 5, 6}
Nodes == MasterNodes \cup SlaveNodes
MovableNodes == {3, 4}

ElemNodes(e) ==
  CASE e = 0 -> <<3, 4>>
    [] e = 1 -> <<4, 5>>
    [] e = 2 -> <<0, 1>>
    [] e = 3 -> <<1, 2>>
    [] e = 4 -> <<5, 6>>

ElemSubdomain(e) == IF e \in {2, 3} THEN _master ELSE _slave

ElemActive(e) == e # 4

\* the coordinates of the nodes that never move
FixedPos(n) ==
  CASE n = 0 -> 0
    [] n = 1 -> 1
    [] n = 2 -> 2
    [] n = 5 -> 2
    [] n = 6 -> 0

Positions == 0..MaxPos

Geometries ==
  {p \in [Nodes -> Positions] : \A n \in Nodes \ MovableNodes : p[n] = FixedPos(n)}

NodeSet(e) == {ElemNodes(e)[k] : k \in 1..Len(ElemNodes(e))}

ActiveSlaveNodes ==
  UNION {NodeSet(e) : e \in {x \in Elems : ElemActive(x) /\ ElemSubdomain(x) = _slave}}

Min(S) == CHOOSE x \in S : \A y \in S : x <= y
Max(S) == CHOOSE x \in S : \A y \in S : x >= y

\* an element contains a point when the point lies between its end nodes
Contains(pos, e, x) ==
  LET xs == {pos[n] : n \in NodeSet(e)}
  IN  Min(xs) <= x /\ x <= Max(xs)

\* PointLocatorBase::operator()(p, &allowed_subdomains) in out-of-mesh mode: the
\* active element of an allowed subdomain that contains the point (the one of
\* lowest id when several do), NULL when there is none
PointLocator(pos, x, allowed) ==
  LET cands == {e \in Elems : /\ ElemActive(e)
                              /\ ElemSubdomain(e) \in allowed
                              /\ Contains(pos, e, x)}
  IN  IF cands = {} THEN NULL ELSE Min(cands)

\* a point locator that ignores the allowed subdomains
LocateAnySubdomain(pos, x, allowed) ==
  LET cands == {e \in Elems : ElemActive(e) /\ Contains(pos, e, x)}
  IN  IF cands = {} THEN NULL ELSE Min(cands)

\* node->dof_number(sys_num, var, 0)
DofNumber(n, v) == n * NumVars + v

Size(f) == Cardinality(DOMAIN f)
EmptyVec == [k \in {} |-> 0]

-----------------------------------------------------------------------------
(* The slave-to-master map *)

\* _slave_to_master_map.find(sid): the mapped element, NULL for end()
MapFind(m, sid) ==
  IF \E p \in m : p[1] = sid THEN (CHOOSE p \in m : p[1] = sid)[2] ELSE NULL

\* std::map::insert: no effect when the key is present
MapInsert(m, sid, mid) ==
  IF \E p \in m : p[1] = sid THEN m ELSE m \cup {<<sid, mid>>}

MapKeys(m) == {p[1] : p \in m}

\* the body of the loop over the nodes of an element, with a locator that is
\* not restricted to the master subdomain
VisitNodeAnySubdomain(pos, st, sn) ==
  IF MapFind(st.map, sn) = NULL
    THEN LET me == LocateAnySubdomain(pos, pos[sn], {_master})
         IN  IF me # NULL
               THEN [map |-> MapInsert(st.map, sn, me), ghosted |-> st.ghosted \cup {me}]
               ELSE st
    ELSE st

\* the body of the loop over the nodes of an element (st: the map and the
\* ghosted elements so far)
VisitNode(pos, st, sn) ==
  IF MapFind(st.map, sn) = NULL
    THEN LET me == PointLocator(pos, pos[sn], {_master})
         IN  IF me # NULL
               THEN [map |-> MapInsert(st.map, sn, me), ghosted |-> st.ghosted \cup {me}]
               ELSE st
    ELSE st

RECURSIVE VisitNodes(_, _, _, _)
VisitNodes(pos, st, nodes, k) ==
  IF k > Len(nodes) THEN st
  ELSE VisitNodes(pos, VisitNode(pos, st, nodes[k]), nodes, k + 1)

\* the loop over the active elements of the slave subdomain, in id order
RECURSIVE VisitElems(_, _, _)
VisitElems(pos, st, e) ==
  IF e >= NumElems THEN st
  ELSE IF ElemActive(e) /\ ElemSubdomain(e) = _slave
         THEN VisitElems(pos, VisitNodes(pos, st, ElemNodes(e), 1), e + 1)
         ELSE VisitElems(pos, st, e + 1)

\* the map and the ghosted elements prepareSlaveToMasterMap leaves
PreparedMap(pos, m, g) == VisitElems(pos, [map |-> m, ghosted |-> g], 0)

-----------------------------------------------------------------------------
(* Data of the neighbor (master) element at a point *)

\* the two linear shape functions of a unit element, evaluated at x
PhiNeighbor(pos, e, x) ==
  LET a == pos[ElemNodes(e)[1]]
      b == pos[ElemNodes(e)[2]]
  IN  [k \in 0..1 |-> IF k = 0 THEN b - x ELSE x - a]

\* the variable interpolated on the element at x
ValueNeighbor(pos, sol, e, x) ==
  LET phi == PhiNeighbor(pos, e, x)
  IN  phi[0] * sol[ElemNodes(e)[1]] + phi[1] * sol[ElemNodes(e)[2]]

-----------------------------------------------------------------------------
(* Inputs the framework supplies *)

Penalties == {2, 10}

\* values of the slave test function at the node
TestSlaveValues == {1, 2}

\* nodal values of the variable: 1 on the master block and 2 on the slave block,
\* the node id, and zero everywhere
SolutionSamples ==
  { [n \in Nodes |-> IF n \in MasterNodes THEN 1 ELSE 2],
    [n \in Nodes |-> n],
    [n \in Nodes |-> 0] }

\* dofs of the constrained variable at the nodes the constraint visits
SlaveDofs == {DofNumber(n, VarNumber) : n \in ActiveSlaveNodes}

ResidualValues == {0 - MaxResidual, 0, MaxResidual}

\* dofs of the active slave block, all variables
AllSlaveDofs == {DofNumber(n, v) : n \in ActiveSlaveNodes, v \in Vars}

\* entries of the system matrix in the rows of the constrained variable: all
\* zero, or a matrix with distinct entries
ZeroJacobian == [rc \in SlaveDofs \X AllSlaveDofs |-> 0]
DenseJacobian == [rc \in SlaveDofs \X AllSlaveDofs |-> 1 + rc[1] + 2 * rc[2]]
\* an assembly block of m rows and n columns with every entry c
Block(m, n, c) == [m |-> m, n |-> n, e |-> [ij \in (0..(m - 1)) \X (0..(n - 1)) |-> c]]

Ret(v) == [err |-> FALSE, val |-> v]
\* mooseError: the call does not return
Abort == [err |-> TRUE, val |-> 0]
NoResult ==
  [call |-> "none", type |-> "none", i |-> 0, j |-> 0, var |-> 0, err |-> FALSE, val |-> 0]

-----------------------------------------------------------------------------
(* Construction *)

\* the members the constructor sets on the mesh geometry pos: the map is built
\* by prepareSlaveToMasterMap from the empty map
Configured(pos, form, pen, ts, sol, jac) ==
  LET st == PreparedMap(pos, {}, {})
  IN  /\ node_pos = pos
      /\ _slave_to_master_map = st.map
      /\ ghosted_elems = st.ghosted
      /\ _formulation = form
      /\ _penalty = pen
      /\ _test_slave = [k \in 0..0 |-> ts]
      /\ solution = sol
      /\ residual_ghosted = [d \in SlaveDofs |-> 0]
      /\ jacobian = jac
      /\ aborted = FALSE

\* the state the constructor leaves: no node has been assembled yet
Constructed(pos, form, pen, ts, sol, jac) ==
  /\ Configured(pos, form, pen, ts, sol, jac)
  /\ _current_node = NULL
  /\ _u_slave = EmptyVec
  /\ _u_master = EmptyVec
  /\ _phi_master = EmptyVec
  /\ _test_master = EmptyVec
  /\ neighbor_subdomain = NULL
  /\ neighbor_elem = NULL
  /\ _constraint_residual = 0
  /\ _connected_dof_indices = EmptyVec
  /\ _phi_slave = EmptyVec
  /\ _Kee = Block(0, 0, 0)
  /\ _Kne = Block(0, 0, 0)
  /\ Ken = Block(0, 0, 0)
  /\ Knn = Block(0, 0, 0)
  /\ applied = FALSE
  /\ result = NoResult
  /\ last_call = "prepareSlaveToMasterMap"

\* construction on any mesh geometry
Init ==
  \E pos \in Geometries, form \in Formulations :
    Constructed(pos, form, 10, 1, [n \in Nodes |-> IF n \in MasterNodes THEN 1 ELSE 2],
                ZeroJacobian)

-----------------------------------------------------------------------------
(* Operations *)

\* the mesh geometry changes: a slave node moves
meshChanged ==
  /\ ~aborted
  /\ \E n \in MovableNodes, x \in Positions :
       /\ x # node_pos[n]
       /\ node_pos' = [node_pos EXCEPT ![n] = x]
  /\ result' = NoResult
  /\ last_call' = "meshChanged"
  /\ UNCHANGED <<mapVars, configVars, nodeVars, neighborVars, fieldVars,
                 _constraint_residual, dofVars, jacobian, blockVars, applied, aborted>>

\* the map-rebuild trigger
prepareSlaveToMasterMap ==
  /\ ~aborted
  /\ LET st == PreparedMap(node_pos, _slave_to_master_map, ghosted_elems)
     IN  /\ _slave_to_master_map' = st.map
         /\ ghosted_elems' = st.ghosted
  /\ result' = NoResult
  /\ last_call' = "prepareSlaveToMasterMap"
  /\ UNCHANGED <<meshVars, configVars, nodeVars, neighborVars, fieldVars,
                 _constraint_residual, dofVars, jacobian, blockVars, applied, aborted>>

\* the assembly loop moves to a node of the slave block and reinitialises the
\* slave-side data there
reinitNodeFace ==
  /\ ~aborted
  /\ \E n \in ActiveSlaveNodes :
       /\ _current_node' = n
       /\ _u_slave' = [k \in 0..0 |-> solution[n]]
  /\ applied' = FALSE
  /\ result' = NoResult
  /\ last_call' = "reinitNodeFace"
  /\ UNCHANGED <<meshVars, mapVars, configVars, neighborVars, fieldVars,
                 _constraint_residual, dofVars, jacobian, blockVars, aborted>>

\* reinitConstraint with _residual_copy a copy of the residual vector taken at
\* construction instead of a reference to it
reinitConstraintCopiedResidual(form, pen, resid, node, us, um) ==
  CASE form = KINEMATIC -> Ret(0 - [d \in SlaveDofs |-> 0][DofNumber(node, VarNumber)])
    [] form = PENALTY -> Ret(pen * (us[0] - um[0]))
    [] OTHER -> Abort

\* reinitConstraint: the value it stores in _constraint_residual
reinitConstraint(form, pen, resid, node, us, um) ==
  CASE form = KINEMATIC -> Ret(0 - resid[DofNumber(node, VarNumber)])
    [] form = PENALTY -> Ret(pen * (us[0] - um[0]))
    [] OTHER -> Abort

\* shouldApply with reinitConstraint run before the master element data is
\* reinitialised
shouldApplyStaleMaster ==
  /\ ~aborted
  /\ _current_node # NULL
  /\ LET mid == MapFind(_slave_to_master_map, _current_node)
     IN  IF mid # NULL
           THEN LET x == node_pos[_current_node]
                    phi == PhiNeighbor(node_pos, mid, x)
                    um == [k \in 0..0 |-> ValueNeighbor(node_pos, solution, mid, x)]
                    old == IF _u_master = EmptyVec THEN [k \in 0..0 |-> 0] ELSE _u_master
                    rc == reinitConstraint(_formulation, _penalty, residual_ghosted,
                                           _current_node, _u_slave, old)
                IN  /\ neighbor_subdomain' = ElemSubdomain(mid)
                    /\ neighbor_elem' = mid
                    /\ _u_master' = um
                    /\ _phi_master' = phi
                    /\ _test_master' = phi
                    /\ IF rc.err
                         THEN aborted' = TRUE /\ UNCHANGED <<_constraint_residual, applied>>
                         ELSE /\ _constraint_residual' = rc.val
                              /\ applied' = TRUE
                              /\ UNCHANGED aborted
           ELSE /\ applied' = FALSE
                /\ UNCHANGED <<neighborVars, _constraint_residual, aborted>>
  /\ result' = NoResult
  /\ last_call' = "shouldApply"
  /\ UNCHANGED <<meshVars, mapVars, configVars, nodeVars, fieldVars, dofVars,
                 jacobian, blockVars>>

shouldApply ==
  /\ ~aborted
  /\ _current_node # NULL
  /\ LET mid == MapFind(_slave_to_master_map, _current_node)
     IN  IF mid # NULL
           THEN LET x == node_pos[_current_node]
                    phi == PhiNeighbor(node_pos, mid, x)
                    um == [k \in 0..0 |-> ValueNeighbor(node_pos, solution, mid, x)]
                    rc == reinitConstraint(_formulation, _penalty, residual_ghosted,
                                           _current_node, _u_slave, um)
                IN  /\ neighbor_subdomain' = ElemSubdomain(mid)
                    /\ neighbor_elem' = mid
                    /\ _u_master' = um
                    /\ _phi_master' = phi
                    /\ _test_master' = phi
                    /\ IF rc.err
                         THEN aborted' = TRUE /\ UNCHANGED <<_constraint_residual, applied>>
                         ELSE /\ _constraint_residual' = rc.val
                              /\ applied' = TRUE
                              /\ UNCHANGED aborted
           ELSE /\ applied' = FALSE
                /\ UNCHANGED <<neighborVars, _constraint_residual, aborted>>
  /\ result' = NoResult
  /\ last_call' = "shouldApply"
  /\ UNCHANGED <<meshVars, mapVars, configVars, nodeVars, fieldVars, dofVars,
                 jacobian, blockVars>>

\* the solver updates an entry of the ghosted residual vector
residualUpdate ==
  /\ ~aborted
  /\ \E d \in SlaveDofs, v \in ResidualValues :
       /\ v # residual_ghosted[d]
       /\ residual_ghosted' = [residual_ghosted EXCEPT ![d] = v]
  /\ result' = NoResult
  /\ last_call' = "residualUpdate"
  /\ UNCHANGED <<meshVars, mapVars, configVars, nodeVars, neighborVars, solution,
                 _constraint_residual, dofVars, jacobian, blockVars, applied, aborted>>

\* the single quadrature point
_qp == 0

\* computeQpResidual with the penalty force added under either formulation
computeQpResidualAlwaysPenalty(type, i) ==
  LET resid == _constraint_residual
  IN  CASE type = "Slave" ->
             LET pen_force == _penalty * (_u_slave[_qp] - _u_master[_qp])
             IN  Ret(_test_slave[i] * (resid + pen_force))
        [] type = "Master" -> Ret(_test_master[i] * (0 - resid))
        [] OTHER -> Ret(0)

\* computeQpResidual with the penalty force also taken into the master side
computeQpResidualMasterPenalty(type, i) ==
  LET pen_force == _penalty * (_u_slave[_qp] - _u_master[_qp])
      resid == IF _formulation = KINEMATIC
                 THEN _constraint_residual + pen_force
                 ELSE _constraint_residual
  IN  CASE type = "Slave" -> Ret(_test_slave[i] * resid)
        [] type = "Master" -> Ret(_test_master[i] * (0 - resid))
        [] OTHER -> Ret(0)

\* computeQpResidual(type) at the test index _i = i
computeQpResidual(type, i) ==
  LET resid == _constraint_residual
  IN  CASE type = "Slave" ->
             IF _formulation = KINEMATIC
               THEN LET pen_force == _penalty * (_u_slave[_qp] - _u_master[_qp])
                    IN  Ret(_test_slave[i] * (resid + pen_force))
               ELSE Ret(_test_slave[i] * resid)
        [] type = "Master" -> Ret(_test_master[i] * (0 - resid))
        [] OTHER -> Ret(0)

\* the record a call leaves: its arguments and what it returned (err: it
\* raised mooseError and returned nothing)
CallResult(call, type, i, j, v, r) ==
  [call |-> call, type |-> type, i |-> i, j |-> j, var |-> v, err |-> r.err, val |-> r.val]

\* the framework calls computeQpResidual for a test index of the given side
computeQpResidualCall ==
  /\ ~aborted
  /\ applied
  /\ \E type \in {"Slave", "Master"} :
       \E i \in (IF type = "Slave" THEN DOMAIN _test_slave ELSE DOMAIN _test_master) :
         LET r == computeQpResidual(type, i)
         IN  /\ result' = CallResult("computeQpResidual", type, i, 0, VarNumber, r)
             /\ aborted' = r.err
  /\ last_call' = "computeQpResidual"
  /\ UNCHANGED <<meshVars, mapVars, configVars, nodeVars, neighborVars, fieldVars,
                 _constraint_residual, dofVars, jacobian, blockVars, applied>>

\* the elements of a set of numbers in increasing order, as a vector
SortedVec(S) ==
  [k \in 0..(Cardinality(S) - 1) |-> CHOOSE x \in S : Cardinality({y \in S : y < x}) = k]

\* NodeElemConstraint::getConnectedDofIndices(var_num): the dofs of the variable
\* on the active elements the node belongs to, without duplicates
ConnectedDofIndices(n, var_num) ==
  LET elems == {e \in Elems : ElemActive(e) /\ n \in NodeSet(e)}
  IN  SortedVec({DofNumber(m, var_num) : m \in UNION {NodeSet(e) : e \in elems}})

\* the fill of _phi_slave that sets the matching entry to 1 and leaves the
\* other entries as the previous call left them
PhiSlaveKeepOthers(conn, dof_index, old) ==
  [j \in DOMAIN conn |->
     IF conn[j] = dof_index THEN 1
     ELSE IF j \in DOMAIN old THEN old[j] ELSE 0]

\* the body of getConnectedDofIndices after the base class call: _phi_slave
\* resized to the connected dofs and filled (old: its previous content)
PhiSlave(conn, dof_index, old) ==
  [j \in DOMAIN conn |-> IF conn[j] = dof_index THEN 1 ELSE 0]

getConnectedDofIndices ==
  /\ ~aborted
  /\ _current_node # NULL
  /\ \E var_num \in Vars :
       LET conn == ConnectedDofIndices(_current_node, var_num)
       IN  /\ _connected_dof_indices' = conn
           /\ _phi_slave' = PhiSlave(conn, DofNumber(_current_node, var_num), _phi_slave)
           /\ result' = CallResult("getConnectedDofIndices", "none", 0, 0, var_num, Ret(0))
  /\ last_call' = "getConnectedDofIndices"
  /\ UNCHANGED <<meshVars, mapVars, configVars, nodeVars, neighborVars, fieldVars,
                 _constraint_residual, jacobian, blockVars, applied, aborted>>

\* (*_jacobian)(dof of the current node for the constrained variable, col)
JacobianEntry(col) == jacobian[<<DofNumber(_current_node, VarNumber), col>>]

\* computeQpJacobian with a master-slave penalty term of the opposite sign
computeQpJacobianMasterSlaveSign(type, i, j, conn, phis) ==
  CASE type = "SlaveSlave" ->
         (CASE _formulation = KINEMATIC ->
                 Ret((0 - JacobianEntry(conn[j])) + phis[j] * _penalty * _test_slave[i])
            [] _formulation = PENALTY -> Ret(phis[j] * _penalty * _test_slave[i])
            [] OTHER -> Abort)
    [] type = "SlaveMaster" ->
         (CASE _formulation = KINEMATIC -> Ret((0 - _phi_master[j]) * _penalty * _test_slave[i])
            [] _formulation = PENALTY -> Ret((0 - _phi_master[j]) * _penalty * _test_slave[i])
            [] OTHER -> Abort)
    [] type = "MasterSlave" ->
         (CASE _formulation = KINEMATIC -> Ret(JacobianEntry(conn[j]) * _test_master[i])
            [] _formulation = PENALTY -> Ret(phis[j] * _penalty * _test_master[i])
            [] OTHER -> Abort)
    [] type = "MasterMaster" ->
         (CASE _formulation = KINEMATIC -> Ret(0)
            [] _formulation = PENALTY -> Ret(_test_master[i] * _penalty * _phi_master[j])
            [] OTHER -> Abort)
    [] OTHER -> Ret(0)

\* computeQpJacobian with the penalty master-master term under either formulation
computeQpJacobianMasterMasterPenalty(type, i, j, conn, phis) ==
  CASE type = "SlaveSlave" ->
         (CASE _formulation = KINEMATIC ->
                 Ret((0 - JacobianEntry(conn[j])) + phis[j] * _penalty * _test_slave[i])
            [] _formulation = PENALTY -> Ret(phis[j] * _penalty * _test_slave[i])
            [] OTHER -> Abort)
    [] type = "SlaveMaster" ->
         (CASE _formulation = KINEMATIC -> Ret((0 - _phi_master[j]) * _penalty * _test_slave[i])
            [] _formulation = PENALTY -> Ret((0 - _phi_master[j]) * _penalty * _test_slave[i])
            [] OTHER -> Abort)
    [] type = "MasterSlave" ->
         (CASE _formulation = KINEMATIC -> Ret(JacobianEntry(conn[j]) * _test_master[i])
            [] _formulation = PENALTY -> Ret((0 - phis[j]) * _penalty * _test_master[i])
            [] OTHER -> Abort)
    [] type = "MasterMaster" ->
         (CASE _formulation = KINEMATIC -> Ret(_test_master[i] * _penalty * _phi_master[j])
            [] _formulation = PENALTY -> Ret(_test_master[i] * _penalty * _phi_master[j])
            [] OTHER -> Abort)
    [] OTHER -> Ret(0)

\* computeQpJacobian whose switches have no default: an unknown formulation
\* falls through to the final return 0.0
computeQpJacobianNoDefault(type, i, j, conn, phis) ==
  CASE type = "SlaveSlave" ->
         (CASE _formulation = KINEMATIC ->
                 Ret((0 - JacobianEntry(conn[j])) + phis[j] * _penalty * _test_slave[i])
            [] _formulation = PENALTY -> Ret(phis[j] * _penalty * _test_slave[i])
            [] OTHER -> Ret(0))
    [] type = "SlaveMaster" ->
         (CASE _formulation = KINEMATIC -> Ret((0 - _phi_master[j]) * _penalty * _test_slave[i])
            [] _formulation = PENALTY -> Ret((0 - _phi_master[j]) * _penalty * _test_slave[i])
            [] OTHER -> Ret(0))
    [] type = "MasterSlave" ->
         (CASE _formulation = KINEMATIC -> Ret(JacobianEntry(conn[j]) * _test_master[i])
            [] _formulation = PENALTY -> Ret((0 - phis[j]) * _penalty * _test_master[i])
            [] OTHER -> Ret(0))
    [] type = "MasterMaster" ->
         (CASE _formulation = KINEMATIC -> Ret(0)
            [] _formulation = PENALTY -> Ret(_test_master[i] * _penalty * _phi_master[j])
            [] OTHER -> Ret(0))
    [] OTHER -> Ret(0)

\* computeQpJacobian(type) at _i = i, _j = j (conn: _connected_dof_indices,
\* phis: _phi_slave)
computeQpJacobian(type, i, j, conn, phis) ==
  CASE type = "SlaveSlave" ->
         (CASE _formulation = KINEMATIC ->
                 Ret((0 - JacobianEntry(conn[j])) + phis[j] * _penalty * _test_slave[i])
            [] _formulation = PENALTY -> Ret(phis[j] * _penalty * _test_slave[i])
            [] OTHER -> Abort)
    [] type = "SlaveMaster" ->
         (CASE _formulation = KINEMATIC -> Ret((0 - _phi_master[j]) * _penalty * _test_slave[i])
            [] _formulation = PENALTY -> Ret((0 - _phi_master[j]) * _penalty * _test_slave[i])
            [] OTHER -> Abort)
    [] type = "MasterSlave" ->
         (CASE _formulation = KINEMATIC -> Ret(JacobianEntry(conn[j]) * _test_master[i])
            [] _formulation = PENALTY -> Ret((0 - phis[j]) * _penalty * _test_master[i])
            [] OTHER -> Abort)
    [] type = "MasterMaster" ->
         (CASE _formulation = KINEMATIC -> Ret(0)
            [] _formulation = PENALTY -> Ret(_test_master[i] * _penalty * _phi_master[j])
            [] OTHER -> Abort)
    [] OTHER -> Ret(0)

\* computeQpOffDiagJacobian(type, jvar) at _i = i, _j = j
computeQpOffDiagJacobian(type, i, j, conn) ==
  CASE type = "SlaveSlave" -> Ret(0 - JacobianEntry(conn[j]))
    [] type = "SlaveMaster" -> Ret(0)
    [] type = "MasterSlave" ->
         (CASE _formulation = KINEMATIC -> Ret(JacobianEntry(conn[j]) * _test_master[i])
            [] _formulation = PENALTY -> Ret(0)
            [] OTHER -> Abort)
    [] type = "MasterMaster" -> Ret(0)
    [] OTHER -> Ret(0)

JacobianTypes == {"SlaveSlave", "SlaveMaster", "MasterSlave", "MasterMaster"}

\* the test indices _i and the trial indices _j a block is assembled over
TestIndices(type) ==
  IF type \in {"SlaveSlave", "SlaveMaster"} THEN DOMAIN _test_slave ELSE DOMAIN _test_master

TrialIndices(type, conn) ==
  IF type \in {"SlaveSlave", "MasterSlave"} THEN DOMAIN conn ELSE DOMAIN _phi_master

\* computeQpJacobian is called for a block at a test and a trial index
computeQpJacobianCall ==
  /\ ~aborted
  /\ applied
  /\ \E type \in JacobianTypes :
       \E i \in TestIndices(type), j \in TrialIndices(type, _connected_dof_indices) :
         LET r == computeQpJacobian(type, i, j, _connected_dof_indices, _phi_slave)
         IN  /\ result' = CallResult("computeQpJacobian", type, i, j, VarNumber, r)
             /\ aborted' = r.err
  /\ last_call' = "computeQpJacobian"
  /\ UNCHANGED <<meshVars, mapVars, configVars, nodeVars, neighborVars, fieldVars,
                 _constraint_residual, dofVars, jacobian, blockVars, applied>>

\* computeQpOffDiagJacobian is called for a block at a test and a trial index
computeQpOffDiagJacobianCall ==
  /\ ~aborted
  /\ applied
  /\ \E type \in JacobianTypes, jvar \in Vars :
       \E i \in TestIndices(type), j \in TrialIndices(type, _connected_dof_indices) :
         LET r == computeQpOffDiagJacobian(type, i, j, _connected_dof_indices)
         IN  /\ result' = CallResult("computeQpOffDiagJacobian", type, i, j, jvar, r)
             /\ aborted' = r.err
  /\ last_call' = "computeQpOffDiagJacobian"
  /\ UNCHANGED <<meshVars, mapVars, configVars, nodeVars, neighborVars, fieldVars,
                 _constraint_residual, dofVars, jacobian, blockVars, applied>>

BlockFill == {0, 3}

\* the assembly hands out the neighbor blocks of the activated node: sized for
\* the test and trial functions, or without storage, holding what other
\* objects have assembled
prepareNeighborBlocks ==
  /\ ~aborted
  /\ applied
  /\ \E stored \in BOOLEAN, c \in BlockFill :
       /\ Ken' = IF stored THEN Block(Size(_test_slave), Size(_phi_master), c)
                           ELSE Block(0, 0, 0)
       /\ Knn' = IF stored THEN Block(Size(_test_master), Size(_phi_master), c)
                           ELSE Block(0, 0, 0)
  /\ result' = NoResult
  /\ last_call' = "prepareNeighborBlocks"
  /\ UNCHANGED <<meshVars, mapVars, configVars, nodeVars, neighborVars, fieldVars,
                 _constraint_residual, dofVars, jacobian, _Kee, _Kne, applied, aborted>>

\* the entries of a block are small enough to be accumulated into
WithinBound(K) == \A ij \in DOMAIN K.e : K.e[ij] <= MaxEntry /\ K.e[ij] >= 0 - MaxEntry

\* K(_i, _j) += computeQpJacobian(type) over the test and trial indices
Accumulate(K, type, conn, phis) ==
  [K EXCEPT !.e =
     [ij \in DOMAIN K.e |->
        IF ij[1] \in TestIndices(type) /\ ij[2] \in TrialIndices(type, conn)
          THEN K.e[ij] + computeQpJacobian(type, ij[1], ij[2], conn, phis).val
          ELSE K.e[ij]]]

\* a call of computeQpJacobian in the loops of a block raises mooseError
Raises(type, conn, phis) ==
  \E i \in TestIndices(type), j \in TrialIndices(type, conn) :
    computeQpJacobian(type, i, j, conn, phis).err

computeJacobian ==
  /\ ~aborted
  /\ applied
  /\ WithinBound(Ken) /\ WithinBound(Knn)
  /\ LET conn == ConnectedDofIndices(_current_node, VarNumber)
         phis == PhiSlave(conn, DofNumber(_current_node, VarNumber), _phi_slave)
         ken == Ken.m # 0 /\ Ken.n # 0
         knn == Knn.m # 0 /\ Knn.n # 0
         raised == \/ Raises("SlaveSlave", conn, phis)
                   \/ ken /\ Raises("SlaveMaster", conn, phis)
                   \/ Raises("MasterSlave", conn, phis)
                   \/ knn /\ Raises("MasterMaster", conn, phis)
     IN  /\ _connected_dof_indices' = conn
         /\ _phi_slave' = phis
         /\ aborted' = raised
         /\ IF raised
              THEN UNCHANGED blockVars
              ELSE /\ _Kee' = Accumulate(Block(Size(_test_slave), Size(conn), 0),
                                         "SlaveSlave", conn, phis)
                   /\ Ken' = IF ken THEN Accumulate(Ken, "SlaveMaster", conn, phis) ELSE Ken
                   /\ _Kne' = Accumulate(Block(Size(_test_master), Size(conn), 0),
                                         "MasterSlave", conn, phis)
                   /\ Knn' = IF knn THEN Accumulate(Knn, "MasterMaster", conn, phis) ELSE Knn
  /\ result' = CallResult("computeJacobian", "none", 0, 0, VarNumber, Ret(0))
  /\ last_call' = "computeJacobian"
  /\ UNCHANGED <<meshVars, mapVars, configVars, nodeVars, neighborVars, fieldVars,
                 _constraint_residual, jacobian, applied>>

Next ==
  \/ meshChanged
  \/ prepareSlaveToMasterMap
  \/ reinitNodeFace
  \/ shouldApply

Spec == Init /\ [][Next]_vars

-----------------------------------------------------------------------------
(* The slave-to-master map *)

\* the master element the point locator finds for a node on the current mesh
Located(n) == PointLocator(node_pos, node_pos[n], {_master})

Entries(n) == {p \in _slave_to_master_map : p[1] = n}

\* C1: after prepareSlaveToMasterMap has run, every node of an active slave
\* element for which the locator, restricted to the master subdomain, finds a
\* containing element has exactly one entry in the map, and the element stored
\* for it belongs to the master subdomain.
C1_LocatedNodesAreMapped ==
  last_call = "prepareSlaveToMasterMap" =>
    \A n \in ActiveSlaveNodes :
      Located(n) # NULL =>
        /\ Cardinality(Entries(n)) = 1
        /\ \A p \in Entries(n) : ElemSubdomain(p[2]) = _master

\* a rerun on a changed mesh: a located node whose entry is an element the map
\* held before the rerun
C1_Witness ==
  /\ last_call = "prepareSlaveToMasterMap"
  /\ \E n \in ActiveSlaveNodes :
       /\ Located(n) # NULL
       /\ MapFind(_slave_to_master_map, n) \notin {NULL, Located(n)}
  /\ \E n \in ActiveSlaveNodes :
       /\ Located(n) # NULL
       /\ MapFind(_slave_to_master_map, n) = Located(n)

\* C2: a slave node with no overlapping master element has no entry in the map
\* once prepareSlaveToMasterMap has run, and shouldApply on a node without an
\* entry returns false and leaves the neighbor subdomain, the master element
\* data and the constraint residual as they were.
C2_NoOverlapNoEntry ==
  [][ /\ prepareSlaveToMasterMap =>
           \A n \in ActiveSlaveNodes :
             PointLocator(node_pos', node_pos'[n], {_master}) = NULL =>
               n \notin MapKeys(_slave_to_master_map')
      /\ (shouldApply /\ _current_node \notin MapKeys(_slave_to_master_map)) =>
           /\ applied' = FALSE
           /\ UNCHANGED <<neighborVars, _constraint_residual>> ]_vars

-----------------------------------------------------------------------------
(* Residuals: the activation gate and the residual contributions on a mesh *)
(* whose slave node 3 coincides with the master node 0                     *)

CoincidentMesh ==
  [n \in Nodes |-> IF n = 3 THEN 0 ELSE IF n = 4 THEN MaxPos ELSE FixedPos(n)]

InitResidual ==
  \E form \in Formulations, pen \in Penalties, ts \in TestSlaveValues,
     sol \in SolutionSamples :
    Constructed(CoincidentMesh, form, pen, ts, sol, ZeroJacobian)

NextResidual ==
  \/ reinitNodeFace
  \/ shouldApply
  \/ residualUpdate
  \/ computeQpResidualCall

SpecResidual == InitResidual /\ [][NextResidual]_vars

\* the constraint was activated for the current node by the last operation
Activated == last_call = "shouldApply" /\ applied /\ ~aborted

\* C3: under the kinematic formulation the constraint residual left by an
\* activation is the negation of the ghosted residual at the slave node's dof
\* as the vector is at that activation, whatever updates came before.
C3_KinematicResidual ==
  (Activated /\ _formulation = KINEMATIC) =>
    _constraint_residual = 0 - residual_ghosted[DofNumber(_current_node, VarNumber)]

\* an activation after the residual entry of the node was updated
C3_Witness ==
  /\ Activated
  /\ _formulation = KINEMATIC
  /\ residual_ghosted[DofNumber(_current_node, VarNumber)] # 0
  /\ _constraint_residual # 0

\* the master value reinitNeighborPhys yields for the current node
MasterValueAtNode ==
  ValueNeighbor(node_pos, solution, MapFind(_slave_to_master_map, _current_node),
                node_pos[_current_node])

\* C4: under the penalty formulation the constraint residual left by an
\* activation is penalty * (slave value - master value), the master value being
\* the one of the mapped master element at the slave node, reinitialised in
\* that activation.
C4_PenaltyResidual ==
  (Activated /\ _formulation = PENALTY) =>
    /\ _u_master[0] = MasterValueAtNode
    /\ _constraint_residual = _penalty * (_u_slave[0] - MasterValueAtNode)

\* an activation with different slave and master values
C4_Witness ==
  /\ Activated
  /\ _formulation = PENALTY
  /\ _u_slave[0] # _u_master[0]
  /\ _constraint_residual # 0

\* a computeQpResidual call has just returned for the activated node
ResidualReturned(type) ==
  /\ last_call = "computeQpResidual"
  /\ result.call = "computeQpResidual"
  /\ result.type = type
  /\ ~result.err

\* the end-to-end scenario: penalty formulation, penalty 10, slave value 2 and
\* master value 1 at the coincident node
Scenario ==
  /\ _formulation = PENALTY
  /\ _penalty = 10
  /\ applied
  /\ _current_node = 3
  /\ node_pos[3] = node_pos[0]
  /\ _u_slave[0] = 2
  /\ _u_master[0] = 1

\* C5 as stated: in the scenario the constraint residual is 10, the slave
\* residual contribution is test_slave * (10 + 10 * (2 - 1)) = test_slave * 20
\* and the master residual contribution is test_master * (-10).
C5_ScenarioAsStated ==
  Scenario =>
    /\ _constraint_residual = 10
    /\ ResidualReturned("Slave") => result.val = _test_slave[result.i] * 20
    /\ ResidualReturned("Master") => result.val = _test_master[result.i] * (0 - 10)

\* C5 as amended: in the scenario the constraint residual is 10, the slave
\* residual contribution is test_slave * 10 (the penalty force is added to the
\* slave residual under the kinematic formulation only) and the master
\* residual contribution is test_master * (-10).
C5_Scenario ==
  Scenario =>
    /\ _constraint_residual = 10
    /\ ResidualReturned("Slave") => result.val = _test_slave[result.i] * 10
    /\ ResidualReturned("Master") => result.val = _test_master[result.i] * (0 - 10)

\* the slave residual contribution was computed in the scenario
C5_Witness ==
  /\ Scenario
  /\ ResidualReturned("Slave")
  /\ _test_slave[result.i] = 2
  /\ result.val = 20

\* C9: computeQpResidual returns test_slave * (constraint_residual +
\* penalty * (slave - master)) on the slave side under the kinematic
\* formulation and test_slave * constraint_residual under the penalty
\* formulation; on the master side it returns test_master *
\* (-constraint_residual) under both, without the kinematic penalty term.
C9_QpResidual ==
  /\ ResidualReturned("Slave") =>
       result.val =
         IF _formulation = KINEMATIC
           THEN _test_slave[result.i]
                  * (_constraint_residual + _penalty * (_u_slave[0] - _u_master[0]))
           ELSE _test_slave[result.i] * _constraint_residual
  /\ ResidualReturned("Master") =>
       result.val = _test_master[result.i] * (0 - _constraint_residual)

\* a master-side residual under the kinematic formulation where the penalty
\* term is not zero and the test value is not zero
C9_Witness ==
  /\ ResidualReturned("Master")
  /\ _formulation = KINEMATIC
  /\ _u_slave[0] # _u_master[0]
  /\ _constraint_residual # 0
  /\ _test_master[result.i] # 0

-----------------------------------------------------------------------------
(* Jacobians: the connected dofs and the four coupling blocks *)

InitJacobian ==
  \E form \in Formulations, pen \in Penalties, ts \in TestSlaveValues :
    Constructed(CoincidentMesh, form, pen, ts,
                [n \in Nodes |-> IF n \in MasterNodes THEN 1 ELSE 2], DenseJacobian)

NextJacobian ==
  \/ reinitNodeFace
  \/ shouldApply
  \/ getConnectedDofIndices
  \/ prepareNeighborBlocks
  \/ computeQpJacobianCall
  \/ computeJacobian

SpecJacobian == InitJacobian /\ [][NextJacobian]_vars

\* the value computeQpJacobian returns for a block in the current state
QpJacobian(type, i, j) ==
  computeQpJacobian(type, i, j, _connected_dof_indices, _phi_slave).val

\* the node is activated and its connected dofs are resolved
Assembling ==
  /\ applied
  /\ ~aborted
  /\ _connected_dof_indices = ConnectedDofIndices(_current_node, VarNumber)

\* C6 as stated: under the penalty formulation the slave-master value is the
\* negative of the master-slave value at the same test and trial indices.
C6_BlocksOppositeAsStated ==
  (Assembling /\ _formulation = PENALTY) =>
    \A i \in TestIndices("SlaveMaster") \cap TestIndices("MasterSlave") :
      \A j \in TrialIndices("SlaveMaster", _connected_dof_indices)
                 \cap TrialIndices("MasterSlave", _connected_dof_indices) :
        QpJacobian("SlaveMaster", i, j) = 0 - QpJacobian("MasterSlave", i, j)

\* C6 as amended: under the penalty formulation the slave-master value is
\* -phi_master[j] * penalty * test_slave[i] and the master-slave value is
\* -phi_slave[j] * penalty * test_master[i]; both carry the same sign, so at
\* indices where the shape products phi_master * test_slave and
\* phi_slave * test_master agree the two values are equal, not opposite.
C6_BlocksSameSign ==
  (Assembling /\ _formulation = PENALTY) =>
    \A i \in TestIndices("SlaveMaster"), i2 \in TestIndices("MasterSlave") :
      \A j \in TrialIndices("SlaveMaster", _connected_dof_indices),
         j2 \in TrialIndices("MasterSlave", _connected_dof_indices) :
        /\ QpJacobian("SlaveMaster", i, j) = 0 - (_phi_master[j] * _penalty * _test_slave[i])
        /\ QpJacobian("MasterSlave", i2, j2) = 0 - (_phi_slave[j2] * _penalty * _test_master[i2])
        /\ _phi_master[j] * _test_slave[i] = _phi_slave[j2] * _test_master[i2] =>
             QpJacobian("SlaveMaster", i, j) = QpJacobian("MasterSlave", i2, j2)

\* both blocks computed at the same indices with nonzero, equal values
C6_Witness ==
  /\ last_call = "computeQpJacobian"
  /\ Assembling
  /\ _formulation = PENALTY
  /\ result.type = "MasterSlave"
  /\ result.val # 0
  /\ result.i \in TestIndices("SlaveMaster")
  /\ result.j \in TrialIndices("SlaveMaster", _connected_dof_indices)
  /\ QpJacobian("SlaveMaster", result.i, result.j) = result.val

\* C8: under the kinematic formulation computeQpJacobian returns 0 for the
\* master-master block whatever the penalty, the shape values and the entries
\* already assembled, and computeJacobian leaves every entry of the
\* master-master block as it was.
C8_KinematicMasterMasterZero ==
  [][ /\ (computeJacobian /\ _formulation = KINEMATIC) => Knn' = Knn
      /\ (computeQpJacobianCall /\ _formulation = KINEMATIC
            /\ result'.type = "MasterMaster") =>
           (~result'.err /\ result'.val = 0) ]_vars

\* computeJacobian has run on a stored master-master block with nonzero entries
\* where the penalty master-master term is not zero
C8_Witness ==
  /\ last_call = "computeJacobian"
  /\ _formulation = KINEMATIC
  /\ ~aborted
  /\ Knn.m # 0 /\ Knn.n # 0
  /\ \E ij \in DOMAIN Knn.e :
       /\ Knn.e[ij] # 0
       /\ _test_master[ij[1]] * _penalty * _phi_master[ij[2]] # 0

\* the positions of _phi_slave that hold 1
Ones == {j \in DOMAIN _phi_slave : _phi_slave[j] = 1}

\* C10: after every call of getConnectedDofIndices(var_num) the synthetic
\* slave basis vector has the size of the connected dof list and holds exactly
\* one 1, at the position of the connected dof that is the current node's dof
\* for that variable, and 0 everywhere else.
C10_PhiSlaveUnitVector ==
  (last_call \in {"getConnectedDofIndices", "computeJacobian"} /\ ~aborted) =>
    /\ DOMAIN _phi_slave = DOMAIN _connected_dof_indices
    /\ Cardinality(Ones) = 1
    /\ \A j \in DOMAIN _phi_slave :
         IF _connected_dof_indices[j] = DofNumber(_current_node, result.var)
           THEN _phi_slave[j] = 1
           ELSE _phi_slave[j] = 0

\* a call for the other variable at a node whose dof is not the first
\* connected dof
C10_Witness ==
  /\ last_call = "getConnectedDofIndices"
  /\ result.var # VarNumber
  /\ Size(_phi_slave) = 3
  /\ _phi_slave[1] = 1

-----------------------------------------------------------------------------
(* The computation functions entered with any value of the formulation *)

\* node 3 is the current node, its master element data and connected dofs are
\* set as shouldApply and getConnectedDofIndices set them, and the formulation
\* is any value, also one outside the enumeration
InitFormulation ==
  \E form \in Formulations \cup {INVALID}, pen \in Penalties, ts \in TestSlaveValues :
    LET sol == [n \in Nodes |-> IF n \in MasterNodes THEN 1 ELSE 2]
        mid == MapFind(PreparedMap(CoincidentMesh, {}, {}).map, 3)
        conn == ConnectedDofIndices(3, VarNumber)
    IN  /\ Configured(CoincidentMesh, form, pen, ts, sol, DenseJacobian)
        /\ _current_node = 3
        /\ _u_slave = [k \in 0..0 |-> sol[3]]
        /\ _u_master = [k \in 0..0 |-> ValueNeighbor(CoincidentMesh, sol, mid, CoincidentMesh[3])]
        /\ _phi_master = PhiNeighbor(CoincidentMesh, mid, CoincidentMesh[3])
        /\ _test_master = PhiNeighbor(CoincidentMesh, mid, CoincidentMesh[3])
        /\ neighbor_subdomain = ElemSubdomain(mid)
        /\ neighbor_elem = mid
        /\ _constraint_residual = 5
        /\ _connected_dof_indices = conn
        /\ _phi_slave = PhiSlave(conn, DofNumber(3, VarNumber), EmptyVec)
        /\ _Kee = Block(0, 0, 0)
        /\ _Kne = Block(0, 0, 0)
        /\ Ken = Block(0, 0, 0)
        /\ Knn = Block(0, 0, 0)
        /\ applied = TRUE
        /\ result = NoResult
        /\ last_call = "getConnectedDofIndices"

NextFormulation ==
  \/ reinitNodeFace
  \/ shouldApply
  \/ computeQpResidualCall
  \/ computeQpJacobianCall
  \/ computeQpOffDiagJacobianCall

SpecFormulation == InitFormulation /\ [][NextFormulation]_vars

InvalidFormulation == _formulation \notin Formulations

\* shouldApply has just run reinitConstraint for a mapped node
ReinitConstraintRan ==
  /\ last_call = "shouldApply"
  /\ MapFind(_slave_to_master_map, _current_node) # NULL

-----------------------------------------------------------------------------
(* The map after reruns of the map-rebuild trigger *)

\* C11: in every state left by prepareSlaveToMasterMap, at construction or at a
\* rerun after the mesh geometry has changed, every key of the map is a node of
\* an active element of the slave subdomain and its value is the master element
\* the point locator finds for that node on the current mesh; no entry made
\* stale by a mesh change survives the rerun.
C11_MapMatchesCurrentMesh ==
  last_call = "prepareSlaveToMasterMap" =>
    \A p \in _slave_to_master_map :
      /\ p[1] \in ActiveSlaveNodes
      /\ p[2] = Located(p[1])

====
